---- MODULE Spec2Model ----
(***************************************************************************)
(* Model of the response parser and content cleaners of the recorder       *)
(* extension: CodeRefactorer (code_refactor.py) and ScriptGenerator        *)
(* (script_generator.py).                                                  *)
(*                                                                         *)
(* Text is a sequence of characters (one-character strings).  The regular  *)
(* expressions of the source are modelled by matchers that work character  *)
(* by character with the semantics of Python's re module (leftmost match,  *)
(* greedy and lazy quantifiers, non-overlapping scan).                     *)
(***************************************************************************)
EXTENDS Integers, Sequences, FiniteSets, TLC

VARIABLES response, op, language, files, separated, cleaned, source, analysis,
          pc, calls, prompt, result, raised, disk, saved,
          project, invocations, before, request, reads,
          session_state, rendered, stopped, script_runs, given

\* the state of an invocation of a public operation
pipeline ==
    <<pc, calls, prompt, result, raised, disk, saved, project, invocations, before,
      request, reads>>

\* the state of the Streamlit page of app.py
app == <<session_state, rendered, stopped, script_runs, given>>

vars == <<response, op, language, files, separated, cleaned, source, analysis, pipeline, app>>

(***************************************************************************)
(* Characters and literals                                                 *)
(***************************************************************************)

\* \w of the re module, restricted to ASCII
WordChars == {"a", "b", "c", "d", "e", "f", "g", "h", "i", "j", "k", "l", "m", "n", "o", "p", "q", "r", "s", "t", "u", "v", "w", "x", "y", "z", "A", "B", "C", "D", "E", "F", "G", "H", "I", "J", "K", "L", "M", "N", "O", "P", "Q", "R", "S", "T", "U", "V", "W", "X", "Y", "Z", "0", "1", "2", "3", "4", "5", "6", "7", "8", "9", "_"}

\* the characters str.strip() and str.rstrip() remove
Whitespace == {" ", "\n", "\r", "\t"}

NL == "\n"

\* the literal parts of file_pattern, r"=== FILENAME: (.+?) ==="
DelimPrefix == <<"=", "=", "=", " ", "F", "I", "L", "E", "N", "A", "M", "E", ":", " ">>

DelimSuffix == <<" ", "=", "=", "=">>

\* the grave accent (backtick) cannot be written in a TLA+ string: it is the
\* one character of the model with a symbolic name
Backquote == "BACKQUOTE"

Fence == <<Backquote, Backquote, Backquote>>

NotesName == <<"R", "E", "F", "A", "C", "T", "O", "R", "I", "N", "G", "_", "N", "O", "T", "E", "S", ".", "m", "d">>

ReadmeName == <<"R", "E", "A", "D", "M", "E", ".", "m", "d">>

NotesHeading == <<"#", " ", "R", "e", "f", "a", "c", "t", "o", "r", "i", "n", "g", " ", "N", "o", "t", "e", "s", "\n", "\n">>

RefactoredStem == <<"r", "e", "f", "a", "c", "t", "o", "r", "e", "d", "_", "c", "o", "d", "e", ".">>

GeneratedStem == <<"g", "e", "n", "e", "r", "a", "t", "e", "d", "_", "s", "c", "r", "i", "p", "t", ".">>

\* a wrong reading: "ts" for typescript, "py" for every other language
ExtensionTsOnly(lang) == IF lang = "typescript" THEN <<"t", "s">> ELSE <<"p", "y">>

\* "py" if language == "python" else "ts"
Extension(lang) == IF lang = "python" THEN <<"p", "y">> ELSE <<"t", "s">>

\* len(explanation) > 50 in extract_explanation
MinExplanationLen == 50

\* blank_count <= 2 in clean_and_validate_code
MaxBlankRun == 2

(***************************************************************************)
(* String primitives: str.strip, str.rstrip, str.split('\n'), '\n'.join    *)
(***************************************************************************)

RECURSIVE FirstNonSpace(_, _)
\* least index >= i of a non-whitespace character, Len(s) + 1 when none
FirstNonSpace(s, i) ==
    IF i > Len(s) THEN i
    ELSE IF s[i] \in Whitespace THEN FirstNonSpace(s, i + 1) ELSE i

RECURSIVE LastNonSpace(_, _)
\* greatest index <= i of a non-whitespace character, 0 when none
LastNonSpace(s, i) ==
    IF i = 0 THEN 0
    ELSE IF s[i] \in Whitespace THEN LastNonSpace(s, i - 1) ELSE i

Strip(s) == SubSeq(s, FirstNonSpace(s, 1), LastNonSpace(s, Len(s)))

RStrip(s) == SubSeq(s, 1, LastNonSpace(s, Len(s)))

RECURSIVE SplitFrom(_, _, _)
SplitFrom(s, start, i) ==
    IF i > Len(s) THEN <<SubSeq(s, start, Len(s))>>
    ELSE IF s[i] = NL THEN <<SubSeq(s, start, i - 1)>> \o SplitFrom(s, i + 1, i + 1)
    ELSE SplitFrom(s, start, i + 1)

\* s.split('\n'): always at least one line
SplitLines(s) == SplitFrom(s, 1, 1)

RECURSIVE JoinFrom(_, _)
JoinFrom(lines, k) ==
    IF k > Len(lines) THEN <<>>
    ELSE IF k = Len(lines) THEN lines[k]
    ELSE lines[k] \o <<NL>> \o JoinFrom(lines, k + 1)

\* '\n'.join(lines)
JoinLines(lines) == JoinFrom(lines, 1)

\* s[i:].startswith(lit)
HasAt(s, i, lit) ==
    /\ i + Len(lit) - 1 <= Len(s)
    /\ SubSeq(s, i, i + Len(lit) - 1) = lit

(***************************************************************************)
(* Regular expressions.  A pattern is named by a tag; MatchAt gives the    *)
(* match of the pattern that starts at position i as a record              *)
(* [end |-> position after the match, gs, ge |-> bounds of group 1], or    *)
(* NoMatch.                                                                *)
(***************************************************************************)

NoMatch == [end |-> 0, gs |-> 0, ge |-> 0]

RECURSIVE SkipWord(_, _)
\* \w* is greedy: position after the longest run of word characters at i
SkipWord(s, i) ==
    IF i <= Len(s) /\ s[i] \in WordChars THEN SkipWord(s, i + 1) ELSE i

RECURSIVE FindLit(_, _, _)
\* least position >= i where lit occurs, 0 when none (lazy .*? with DOTALL)
FindLit(s, i, lit) ==
    IF i + Len(lit) - 1 > Len(s) THEN 0
    ELSE IF HasAt(s, i, lit) THEN i ELSE FindLit(s, i + 1, lit)

RECURSIVE FindSuffixOnLine(_, _)
\* (.+?) ===  : k is the position after the name so far; '.' stops at \n
FindSuffixOnLine(s, k) ==
    IF k > Len(s) THEN 0
    ELSE IF HasAt(s, k, DelimSuffix) THEN k
    ELSE IF s[k] = NL THEN 0
    ELSE FindSuffixOnLine(s, k + 1)

\* r"=== FILENAME: (.+?) ==="
MatchFilePattern(s, i) ==
    IF ~HasAt(s, i, DelimPrefix) THEN NoMatch
    ELSE LET ns == i + Len(DelimPrefix)
         IN IF ns > Len(s) \/ s[ns] = NL THEN NoMatch
            ELSE LET k == FindSuffixOnLine(s, ns + 1)
                 IN IF k = 0 THEN NoMatch
                    ELSE [end |-> k + Len(DelimSuffix), gs |-> ns, ge |-> k - 1]

\* r'```\w*\n?'
MatchOpenOptNl(s, i) ==
    IF ~HasAt(s, i, Fence) THEN NoMatch
    ELSE LET w == SkipWord(s, i + 3)
         IN [end |-> IF w <= Len(s) /\ s[w] = NL THEN w + 1 ELSE w, gs |-> 0, ge |-> 0]

\* r'```\w*\n'
MatchOpenNl(s, i) ==
    IF ~HasAt(s, i, Fence) THEN NoMatch
    ELSE LET w == SkipWord(s, i + 3)
         IN IF w <= Len(s) /\ s[w] = NL THEN [end |-> w + 1, gs |-> 0, ge |-> 0]
            ELSE NoMatch

\* r'```'
MatchFence(s, i) ==
    IF HasAt(s, i, Fence) THEN [end |-> i + 3, gs |-> 0, ge |-> 0] ELSE NoMatch

\* r'```\w*\n(.*?)```' with re.DOTALL
MatchCodeBlock(s, i) ==
    LET o == MatchOpenNl(s, i)
    IN IF o.end = 0 THEN NoMatch
       ELSE LET c == FindLit(s, o.end, Fence)
            IN IF c = 0 THEN NoMatch
               ELSE [end |-> c + 3, gs |-> o.end, ge |-> c - 1]

\* r'```.*?```' with re.DOTALL
MatchFenced(s, i) ==
    IF ~HasAt(s, i, Fence) THEN NoMatch
    ELSE LET c == FindLit(s, i + 3, Fence)
         IN IF c = 0 THEN NoMatch ELSE [end |-> c + 3, gs |-> 0, ge |-> 0]

MatchAt(re, s, i) ==
    CASE re = "file_pattern" -> MatchFilePattern(s, i)
      [] re = "open_opt_nl" -> MatchOpenOptNl(s, i)
      [] re = "open_nl" -> MatchOpenNl(s, i)
      [] re = "fence" -> MatchFence(s, i)
      [] re = "code_block" -> MatchCodeBlock(s, i)
      [] re = "fenced" -> MatchFenced(s, i)

RECURSIVE SubFrom(_, _, _, _)
\* start is the first character not yet copied, i the scan position
SubFrom(re, s, start, i) ==
    IF i > Len(s) THEN SubSeq(s, start, Len(s))
    ELSE LET m == MatchAt(re, s, i)
         IN IF m.end = 0 THEN SubFrom(re, s, start, i + 1)
            ELSE SubSeq(s, start, i - 1) \o SubFrom(re, s, m.end, m.end)

\* re.sub(re, '', s)
ReSubEmpty(re, s) == SubFrom(re, s, 1, 1)

RECURSIVE FindAllFrom(_, _, _)
FindAllFrom(re, s, i) ==
    IF i > Len(s) THEN <<>>
    ELSE LET m == MatchAt(re, s, i)
         IN IF m.end = 0 THEN FindAllFrom(re, s, i + 1)
            ELSE <<SubSeq(s, m.gs, m.ge)>> \o FindAllFrom(re, s, m.end)

\* re.findall(re, s) for a pattern with one group: the captured texts
ReFindAll(re, s) == FindAllFrom(re, s, 1)

RECURSIVE SplitReFrom(_, _, _, _)
SplitReFrom(re, s, start, i) ==
    IF i > Len(s) THEN <<SubSeq(s, start, Len(s))>>
    ELSE LET m == MatchAt(re, s, i)
         IN IF m.end = 0 THEN SplitReFrom(re, s, start, i + 1)
            ELSE <<SubSeq(s, start, i - 1), SubSeq(s, m.gs, m.ge)>>
                     \o SplitReFrom(re, s, m.end, m.end)

\* re.split(re, s) for a pattern with one group: text, group, text, ...
ReSplit(re, s) == SplitReFrom(re, s, 1, 1)

(***************************************************************************)
(* Content cleaners                                                        *)
(***************************************************************************)

RECURSIVE CollapseBlankOne(_, _, _)
\* CollapseBlank with "blank_count < 2" for "blank_count <= 2"
CollapseBlankOne(lines, k, bc) ==
    IF k > Len(lines) THEN <<>>
    ELSE IF Strip(lines[k]) = <<>>
         THEN (IF bc + 1 < MaxBlankRun THEN <<(<<>>)>> ELSE <<>>)
                  \o CollapseBlankOne(lines, k + 1, bc + 1)
         ELSE <<RStrip(lines[k])>> \o CollapseBlankOne(lines, k + 1, 0)

RECURSIVE CollapseBlankNoRStrip(_, _, _)
\* CollapseBlank with "cleaned_lines.append(line)" for "append(line.rstrip())"
CollapseBlankNoRStrip(lines, k, bc) ==
    IF k > Len(lines) THEN <<>>
    ELSE IF Strip(lines[k]) = <<>>
         THEN (IF bc + 1 <= MaxBlankRun THEN <<(<<>>)>> ELSE <<>>)
                  \o CollapseBlankNoRStrip(lines, k + 1, bc + 1)
         ELSE <<lines[k]>> \o CollapseBlankNoRStrip(lines, k + 1, 0)

RECURSIVE CollapseBlank(_, _, _)
\* the loop of clean_and_validate_code over lines[k..], blank_count = bc
CollapseBlank(lines, k, bc) ==
    IF k > Len(lines) THEN <<>>
    ELSE IF Strip(lines[k]) = <<>>
         THEN (IF bc + 1 <= MaxBlankRun THEN <<(<<>>)>> ELSE <<>>)
                  \o CollapseBlank(lines, k + 1, bc + 1)
         ELSE <<RStrip(lines[k])>> \o CollapseBlank(lines, k + 1, 0)

\* PopBlank with "if" for "while": at most one trailing blank line goes
PopBlankOnce(lines) ==
    IF Len(lines) > 0 /\ lines[Len(lines)] = <<>>
    THEN SubSeq(lines, 1, Len(lines) - 1)
    ELSE lines

RECURSIVE PopBlank(_)
\* while cleaned_lines and cleaned_lines[-1] == '': cleaned_lines.pop()
PopBlank(lines) ==
    IF Len(lines) > 0 /\ lines[Len(lines)] = <<>>
    THEN PopBlank(SubSeq(lines, 1, Len(lines) - 1))
    ELSE lines

\* the two re.sub calls of clean_and_validate_code
StripFencesRefactor(code) == ReSubEmpty("fence", ReSubEmpty("open_opt_nl", code))

\* CodeRefactorer.clean_and_validate_code
clean_and_validate_code(code, lang) ==
    JoinLines(PopBlank(CollapseBlank(SplitLines(StripFencesRefactor(code)), 1, 0)))

\* StripFencesGenerate without the second re.sub
StripFencesGenerateOnce(content) == ReSubEmpty("open_nl", content)

\* the two re.sub calls of clean_code_content
StripFencesGenerate(content) == ReSubEmpty("fence", ReSubEmpty("open_nl", content))

RStripEach(lines) == [k \in 1..Len(lines) |-> RStrip(lines[k])]

\* ScriptGenerator.clean_code_content
clean_code_content(content) ==
    Strip(JoinLines(RStripEach(SplitLines(StripFencesGenerate(content)))))

(***************************************************************************)
(* Response parsers                                                        *)
(***************************************************************************)

Record(name, content, kind) == [filename |-> name, content |-> content, type |-> kind]

\* extract_explanation with ">= 50" for "> 50"
extract_explanation_ge(text) ==
    LET explanation == Strip(ReSubEmpty("fenced", text))
    IN IF Len(explanation) >= MinExplanationLen THEN NotesHeading \o explanation ELSE <<>>

\* CodeRefactorer.extract_explanation
extract_explanation(text) ==
    LET explanation == Strip(ReSubEmpty("fenced", text))
    IN IF Len(explanation) > MinExplanationLen THEN NotesHeading \o explanation ELSE <<>>

RECURSIVE MaxFromLast(_, _, _)
\* MaxFrom with ">=" for ">": the last of the longest items wins
MaxFromLast(blocks, k, best) ==
    IF k > Len(blocks) THEN best
    ELSE MaxFromLast(blocks, k + 1, IF Len(blocks[k]) >= Len(best) THEN blocks[k] ELSE best)

RECURSIVE MaxFrom(_, _, _)
\* max(blocks, key=len): the running best is replaced only by a longer item
MaxFrom(blocks, k, best) ==
    IF k > Len(blocks) THEN best
    ELSE MaxFrom(blocks, k + 1, IF Len(blocks[k]) > Len(best) THEN blocks[k] ELSE best)

MaxByLen(blocks) == MaxFrom(blocks, 2, blocks[1])

\* separate_explanation_and_code that takes a response without code blocks
\* as its own explanation
separate_explanation_and_code_echo(resp) ==
    LET code_blocks == ReFindAll("code_block", resp)
    IN IF code_blocks # <<>>
       THEN <<Strip(ReSubEmpty("fenced", resp)), Strip(MaxByLen(code_blocks))>>
       ELSE <<Strip(resp), Strip(resp)>>

\* CodeRefactorer.separate_explanation_and_code: <<explanation, code>>
separate_explanation_and_code(resp) ==
    LET code_blocks == ReFindAll("code_block", resp)
    IN IF code_blocks # <<>>
       THEN <<Strip(ReSubEmpty("fenced", resp)), Strip(MaxByLen(code_blocks))>>
       ELSE <<(<<>>), Strip(resp)>>

RECURSIVE RefactorPairsNoClean(_, _, _)
\* RefactorPairs that takes the content segment as it is (no strip, no clean)
RefactorPairsNoClean(parts, j, lang) ==
    IF j > Len(parts) THEN <<>>
    ELSE (IF j + 1 <= Len(parts)
          THEN <<Record(Strip(parts[j]), parts[j + 1], "code")>>
          ELSE <<>>)
         \o RefactorPairsNoClean(parts, j + 2, lang)

RECURSIVE RefactorPairs(_, _, _)
\* for i in range(1, len(parts), 2) of parse_refactored_response; parts[j]
\* is the filename (Python index i = j - 1)
RefactorPairs(parts, j, lang) ==
    IF j > Len(parts) THEN <<>>
    ELSE (IF j + 1 <= Len(parts)
          THEN <<Record(Strip(parts[j]),
                        clean_and_validate_code(Strip(parts[j + 1]), lang), "code")>>
          ELSE <<>>)
         \o RefactorPairs(parts, j + 2, lang)

\* CodeRefactorer.parse_refactored_response
parse_refactored_response(resp, lang) ==
    IF ReFindAll("file_pattern", resp) # <<>>
    THEN LET parts == ReSplit("file_pattern", resp)
             explanation == IF Strip(parts[1]) # <<>>
                            THEN extract_explanation(parts[1]) ELSE <<>>
         IN (IF explanation # <<>>
             THEN <<Record(NotesName, explanation, "documentation")>> ELSE <<>>)
            \o RefactorPairs(parts, 2, lang)
    ELSE LET sep == separate_explanation_and_code(resp)
         IN (IF sep[1] # <<>>
             THEN <<Record(NotesName, sep[1], "documentation")>> ELSE <<>>)
            \o (IF sep[2] # <<>>
                THEN <<Record(RefactoredStem \o Extension(lang),
                              clean_and_validate_code(sep[2], lang), "code")>>
                ELSE <<>>)

RECURSIVE GeneratePairsSkipEmpty(_, _)
\* GeneratePairs that skips a pair whose content is empty
GeneratePairsSkipEmpty(parts, j) ==
    IF j > Len(parts) THEN <<>>
    ELSE (IF j + 1 <= Len(parts) /\ Strip(parts[j + 1]) # <<>>
          THEN <<Record(Strip(parts[j]), clean_code_content(Strip(parts[j + 1])), "code")>>
          ELSE <<>>)
         \o GeneratePairsSkipEmpty(parts, j + 2)

RECURSIVE GeneratePairs(_, _)
\* for i in range(1, len(parts), 2) of parse_multi_file_response
GeneratePairs(parts, j) ==
    IF j > Len(parts) THEN <<>>
    ELSE (IF j + 1 <= Len(parts)
          THEN <<Record(Strip(parts[j]), clean_code_content(Strip(parts[j + 1])), "code")>>
          ELSE <<>>)
         \o GeneratePairs(parts, j + 2)

\* ScriptGenerator.parse_multi_file_response
parse_multi_file_response(resp, lang) ==
    IF ReFindAll("file_pattern", resp) # <<>>
    THEN LET parts == ReSplit("file_pattern", resp)
         IN (IF Strip(parts[1]) # <<>>
             THEN <<Record(ReadmeName, Strip(parts[1]), "documentation")>> ELSE <<>>)
            \o GeneratePairs(parts, 2)
    ELSE <<Record(GeneratedStem \o Extension(lang), clean_code_content(resp), "code")>>

(***************************************************************************)
(* Structural analyzer.  ast.parse is modelled by a parser of the part of  *)
(* the Python grammar the inputs are written in: import and from-import    *)
(* statements, pass, def, async def, class and try/except blocks, comments *)
(* and blank lines, with Python's indentation rules.                       *)
(***************************************************************************)

KwImport == <<"i", "m", "p", "o", "r", "t", " ">>

KwFrom == <<"f", "r", "o", "m", " ">>

KwFromImport == <<" ", "i", "m", "p", "o", "r", "t", " ">>

KwDef == <<"d", "e", "f", " ">>

KwAsync == <<"a", "s", "y", "n", "c", " ">>

KwClass == <<"c", "l", "a", "s", "s", " ">>

KwCall == <<"(", ")", ":">>

KwTry == <<"t", "r", "y", ":">>

KwExcept == <<"e", "x", "c", "e", "p", "t", ":">>

KwPass == <<"p", "a", "s", "s">>

KwTodo == <<"T", "O", "D", "O">>

KwFixme == <<"F", "I", "X", "M", "E">>

\* a lone surrogate code point (U+D800), which a str can hold and UTF-8 cannot
\* encode; it cannot be written in a TLA+ string
Surrogate == "SURROGATE"

Digits == {"0", "1", "2", "3", "4", "5", "6", "7", "8", "9"}

\* the line count a large file exceeds
LargeFileLines == 500

\* len(analysis["functions"]) > 20
ManyFunctions == 20

\* len(analysis["classes"]) > 10
ManyClasses == 10

\* {20,} in the pattern of very long functions
LongFunctionLines == 20

FlagSyntax == "Syntax errors present"

FlagLarge == "Large file (>500 lines)"

FlagFunctions == "Many functions (>20)"

FlagClasses == "Many classes (>10)"

FlagTodo == "Contains TODO/FIXME comments"

FlagExcept == "Bare except clauses found"

FlagLong == "Very long functions detected"

\* lit in s
Contains(s, lit) == \E i \in 1..(Len(s) - Len(lit) + 1) : HasAt(s, i, lit)

IsName(w) ==
    /\ w # <<>>
    /\ \A k \in 1..Len(w) : w[k] \in WordChars
    /\ w[1] \notin Digits

HasSuffix(s, lit) == Len(s) >= Len(lit) /\ SubSeq(s, Len(s) - Len(lit) + 1, Len(s)) = lit

\* the text between a prefix and a suffix of s
Between(s, pre, suf) == SubSeq(s, Len(pre) + 1, Len(s) - Len(suf))

RECURSIVE LeadingSpaces(_, _)
LeadingSpaces(line, k) ==
    IF k <= Len(line) /\ line[k] = " " THEN LeadingSpaces(line, k + 1) ELSE k - 1

\* the reserved words that IsName accepts and that are no expression
Keywords ==
    {<<"i", "m", "p", "o", "r", "t">>, <<"f", "r", "o", "m">>, <<"d", "e", "f">>,
     <<"c", "l", "a", "s", "s">>, <<"t", "r", "y">>, <<"e", "x", "c", "e", "p", "t">>, KwPass}

Token(ind, kind, name) == [indent |-> ind, kind |-> kind, name |-> name]

\* the text of a line without its indentation, its comment (from # to the
\* end of the line) and the blanks at its end
CodeOf(line) ==
    LET hash == FindLit(line, 1, <<"#">>)
    IN RStrip(SubSeq(line, LeadingSpaces(line, 1) + 1,
                     IF hash = 0 THEN Len(line) ELSE hash - 1))

\* the statement "from MODULE import NAME"; imp is where " import " starts
FromStatement(ind, body, imp) ==
    IF imp = 0 \/ ~IsName(SubSeq(body, imp + Len(KwFromImport), Len(body)))
    THEN Token(ind, "invalid", <<>>)
    ELSE IF SubSeq(body, Len(KwFrom) + 1, imp - 1) = <<".">>
    THEN Token(ind, "from_relative", SubSeq(body, imp + Len(KwFromImport), Len(body)))
    ELSE IF IsName(SubSeq(body, Len(KwFrom) + 1, imp - 1))
    THEN Token(ind, "from", SubSeq(body, Len(KwFrom) + 1, imp - 1) \o <<".">>
                            \o SubSeq(body, imp + Len(KwFromImport), Len(body)))
    ELSE Token(ind, "invalid", <<>>)

\* the logical line with the given indentation and text
Statement(ind, body) ==
    IF body = <<>> THEN Token(ind, "blank", <<>>)
    ELSE IF body = KwPass THEN Token(ind, "pass", <<>>)
    ELSE IF IsName(body) /\ body \notin Keywords THEN Token(ind, "expr", <<>>)
    ELSE IF body = KwTry THEN Token(ind, "try", <<>>)
    ELSE IF body = KwExcept THEN Token(ind, "except", <<>>)
    ELSE IF HasAt(body, 1, KwImport) /\ IsName(Between(body, KwImport, <<>>))
         THEN Token(ind, "import", Between(body, KwImport, <<>>))
    ELSE IF HasAt(body, 1, KwFrom)
         THEN FromStatement(ind, body, FindLit(body, Len(KwFrom) + 1, KwFromImport))
    ELSE IF HasAt(body, 1, KwDef) /\ HasSuffix(body, KwCall)
            /\ IsName(Between(body, KwDef, KwCall))
         THEN Token(ind, "def", Between(body, KwDef, KwCall))
    ELSE IF HasAt(body, 1, KwAsync \o KwDef) /\ HasSuffix(body, KwCall)
            /\ IsName(Between(body, KwAsync \o KwDef, KwCall))
         THEN Token(ind, "async_def", Between(body, KwAsync \o KwDef, KwCall))
    ELSE IF HasAt(body, 1, KwClass) /\ HasSuffix(body, <<":">>)
            /\ IsName(Between(body, KwClass, <<":">>))
         THEN Token(ind, "class", Between(body, KwClass, <<":">>))
    ELSE Token(ind, "invalid", <<>>)

\* the logical line a physical line stands for
Classify(line) == Statement(LeadingSpaces(line, 1), CodeOf(line))

IsLogical(t) == t.kind # "blank"

\* the positions at which the lines of code.split('\n') start
LineStarts(code) == {1} \cup {i + 1 : i \in {j \in 1..Len(code) : code[j] = NL}}

\* the line of code.split('\n') that starts at p
LineAt(code, p) ==
    LET e == FindLit(code, p, <<NL>>)
    IN SubSeq(code, p, IF e = 0 THEN Len(code) ELSE e - 1)

\* the k-th smallest member of a set of positions
Nth(S, k) == CHOOSE p \in S : Cardinality({q \in S : q < p}) = k - 1

\* the logical lines of the source: blank lines and comments do not count
Tokens(code) ==
    LET starts == {p \in LineStarts(code) : IsLogical(Classify(LineAt(code, p)))}
    IN [k \in 1..Cardinality(starts) |-> Classify(LineAt(code, Nth(starts, k)))]

Node(kind, name, children) == [kind |-> kind, name |-> name, children |-> children]

ParseFail == [ok |-> FALSE, next |-> 0, nodes |-> <<>>]

RECURSIVE ParseBlock(_, _, _)
RECURSIVE ParseStmt(_, _, _)
RECURSIVE ParseSuite(_, _, _)

\* the statements at indentation ind from logical line k on
ParseBlock(toks, k, ind) ==
    IF k > Len(toks) \/ toks[k].indent < ind THEN [ok |-> TRUE, next |-> k, nodes |-> <<>>]
    ELSE IF toks[k].indent > ind THEN ParseFail
    ELSE LET st == ParseStmt(toks, k, ind)
         IN IF ~st.ok THEN ParseFail
            ELSE LET rest == ParseBlock(toks, st.next, ind)
                 IN IF ~rest.ok THEN ParseFail
                    ELSE [ok |-> TRUE, next |-> rest.next, nodes |-> st.nodes \o rest.nodes]

\* the indented block a compound statement at indentation ind requires
ParseSuite(toks, k, ind) ==
    IF k <= Len(toks) /\ toks[k].indent > ind
    THEN ParseBlock(toks, k, toks[k].indent)
    ELSE ParseFail

ParseStmt(toks, k, ind) ==
    LET t == toks[k]
    IN IF t.kind \in {"import", "from", "from_relative", "pass", "expr"}
       THEN [ok |-> TRUE, next |-> k + 1, nodes |-> <<Node(t.kind, t.name, <<>>)>>]
       ELSE IF t.kind \in {"def", "async_def", "class"}
       THEN LET body == ParseSuite(toks, k + 1, ind)
            IN IF ~body.ok THEN ParseFail
               ELSE [ok |-> TRUE, next |-> body.next,
                     nodes |-> <<Node(t.kind, t.name, body.nodes)>>]
       ELSE IF t.kind = "try"
       THEN LET body == ParseSuite(toks, k + 1, ind)
            IN IF ~body.ok THEN ParseFail
               ELSE IF ~(/\ body.next <= Len(toks)
                         /\ toks[body.next].indent = ind
                         /\ toks[body.next].kind = "except")
               THEN ParseFail
               ELSE LET handler == ParseSuite(toks, body.next + 1, ind)
                    IN IF ~handler.ok THEN ParseFail
                       ELSE [ok |-> TRUE, next |-> handler.next,
                             nodes |-> <<Node("try", <<>>,
                                 body.nodes \o <<Node("handler", <<>>, handler.nodes)>>)>>]
       ELSE ParseFail

\* the module made of the logical lines toks, or the syntax error
ParseModule(toks, parsed) ==
    IF parsed.ok /\ parsed.next > Len(toks)
    THEN [raised |-> "none", body |-> parsed.nodes]
    ELSE [raised |-> "SyntaxError", body |-> <<>>]

\* the statements of the module from its logical lines
ParseTokens(toks) == ParseModule(toks, ParseBlock(toks, 1, 0))

\* ast.parse(code): the statements of the module, or the exception raised
AstParse(code) ==
    IF \E i \in 1..Len(code) : code[i] = Surrogate
    THEN [raised |-> "UnicodeEncodeError", body |-> <<>>]
    ELSE ParseTokens(Tokens(code))

RECURSIVE ChildrenOf(_, _)
\* the children of nodes[k..], in order
ChildrenOf(nodes, k) ==
    IF k > Len(nodes) THEN <<>> ELSE nodes[k].children \o ChildrenOf(nodes, k + 1)

RECURSIVE WalkLevels(_)
\* ast.walk: a queue of nodes, the children of a node join it at the end
WalkLevels(nodes) ==
    IF nodes = <<>> THEN <<>> ELSE nodes \o WalkLevels(ChildrenOf(nodes, 1))

\* ast.walk(tree) for the Module node of the statements body
AstWalk(body) == WalkLevels(body)

RECURSIVE NamesOf(_, _, _)
\* the names of the nodes of the given kinds among nodes[k..]
NamesOf(nodes, kinds, k) ==
    IF k > Len(nodes) THEN <<>>
    ELSE (IF nodes[k].kind \in kinds THEN <<nodes[k].name>> ELSE <<>>)
         \o NamesOf(nodes, kinds, k + 1)

\* a match of r'def \w+\(.*\):' that starts at i ends before one of these
HeaderEnds(code, i) ==
    IF ~HasAt(code, i, KwDef) THEN {}
    ELSE LET w == SkipWord(code, i + Len(KwDef))
             eol == LET n == FindLit(code, w, <<NL>>) IN IF n = 0 THEN Len(code) + 1 ELSE n
         IN IF w = i + Len(KwDef) \/ w > Len(code) \/ code[w] # "(" THEN {}
            ELSE {p + 2 : p \in {q \in (w + 1)..(eol - 2) : HasAt(code, q, <<")", ":">>)}}

\* (?:\s*\n)* : the positions the pattern can be at after blank text from p
AfterBlank(code, p) ==
    {p} \cup {n + 1 : n \in {m \in p..Len(code) :
                   code[m] = NL /\ \A j \in p..m : code[j] \in Whitespace}}

\* \s{4,}.*\n matches code[q..e]
IsIndentedLine(code, q, e) ==
    /\ e >= q + 4
    /\ e <= Len(code)
    /\ code[e] = NL
    /\ \E w \in (q + 4)..e :
          /\ \A j \in q..(w - 1) : code[j] \in Whitespace
          /\ \A j \in w..(e - 1) : code[j] # NL

NewlinesFrom(code, q) == Cardinality({j \in q..Len(code) : code[j] = NL})

RECURSIVE CanIndentedLines(_, _, _)
\* (?:\s{4,}.*\n){n,} matches at q
CanIndentedLines(code, q, n) ==
    \/ n = 0
    \/ /\ NewlinesFrom(code, q) >= n
       /\ \E e \in (q + 4)..Len(code) :
             IsIndentedLine(code, q, e) /\ CanIndentedLines(code, e + 1, n - 1)

\* len(re.findall(r'def \w+\(.*\):(?:\s*\n)*(?:\s{4,}.*\n){20,}', code)) > 0
HasLongFunction(code) ==
    \E i \in 1..Len(code) : \E p \in HeaderEnds(code, i) :
        \E q \in AfterBlank(code, p) : CanIndentedLines(code, q, LongFunctionLines)

NoAnalysis ==
    [raised |-> "none", language |-> "none", lines_of_code |-> 0,
     complexity_indicators |-> <<>>, imports |-> <<>>, functions |-> <<>>, classes |-> <<>>]

\* a wrong reading: 500 lines are a large file already
IsLargeFileAtLeast(lines_of_code) == lines_of_code >= LargeFileLines

\* analysis["lines_of_code"] > 500
IsLargeFile(lines_of_code) == lines_of_code > LargeFileLines

\* a wrong reading: only TODO is looked for
HasTodoOnly(code) == Contains(code, KwTodo)

\* "TODO" in code or "FIXME" in code
HasTodo(code) == Contains(code, KwTodo) \/ Contains(code, KwFixme)

\* the heuristic flags of a profile, in the order the code appends them
Indicators(code, lines_of_code, functions, classes) ==
    (IF IsLargeFile(lines_of_code) THEN <<FlagLarge>> ELSE <<>>)
    \o (IF Len(functions) > ManyFunctions THEN <<FlagFunctions>> ELSE <<>>)
    \o (IF Len(classes) > ManyClasses THEN <<FlagClasses>> ELSE <<>>)
    \o (IF HasTodo(code) THEN <<FlagTodo>> ELSE <<>>)
    \o (IF Contains(code, KwExcept) THEN <<FlagExcept>> ELSE <<>>)
    \o (IF HasLongFunction(code) THEN <<FlagLong>> ELSE <<>>)

\* the profile after the loop over ast.walk(tree), for the outcome of the
\* parse and the nodes walked
CollectedProfile(code, lang, outcome, nodes) ==
    [raised |-> "none",
     language |-> lang,
     lines_of_code |-> Cardinality(LineStarts(code)),
     complexity_indicators |->
         (IF outcome = "SyntaxError" THEN <<FlagSyntax>> ELSE <<>>)
         \o Indicators(code, Cardinality(LineStarts(code)),
                       NamesOf(nodes, {"def"}, 1), NamesOf(nodes, {"class"}, 1)),
     imports |-> NamesOf(nodes, {"import", "from"}, 1),
     functions |-> NamesOf(nodes, {"def"}, 1),
     classes |-> NamesOf(nodes, {"class"}, 1)]

\* the profile for the outcome tree of the parse: an exception other than
\* SyntaxError leaves the function
ProfileOf(code, lang, tree) ==
    IF tree.raised \notin {"none", "SyntaxError"}
    THEN [NoAnalysis EXCEPT !.raised = tree.raised]
    ELSE CollectedProfile(code, lang, tree.raised, AstWalk(tree.body))

\* CodeRefactorer.analyze_code_structure; raised names the exception that
\* leaves the function, if any
analyze_code_structure(code, lang) ==
    ProfileOf(code, lang,
              IF lang = "python" THEN AstParse(code) ELSE [raised |-> "none", body |-> <<>>])

(***************************************************************************)
(* Public operations.  An invocation goes through the steps of             *)
(* refactor_code / generate_script and, for the saving operations, of      *)
(* save_refactored_files / save_files; pc is the step it is at.            *)
(***************************************************************************)

\* analysis['imports'][:10]
MaxImportsShown == 10

Refactorers == {"refactor_code", "refactor_file", "refactor_and_save"}

Generators == {"generate_script", "generate_and_save"}

Savers == {"refactor_and_save", "generate_and_save"}

NoPrompt == [kind |-> "none"]

NoResult ==
    [success |-> FALSE, error |-> "none", about |-> <<>>, files |-> <<>>, saved_files |-> <<>>]

\* {"success": False, "error": str(e), ...}
Failure(message) == [NoResult EXCEPT !.error = message]

\* {"success": False, "error": f"{message}: {about}"}
FailureAbout(message, about) == [NoResult EXCEPT !.error = message, !.about = about]

\* {"success": True, "files": files, ...}
Success(parsed) == [NoResult EXCEPT !.success = TRUE, !.files = parsed]

Take(seq, n) == SubSeq(seq, 1, IF Len(seq) < n THEN Len(seq) ELSE n)

\* ', '.join(names)
RECURSIVE JoinNames(_)
JoinNames(names) ==
    IF names = <<>> THEN <<>>
    ELSE IF Len(names) = 1 THEN names[1]
    ELSE names[1] \o <<",", " ">> \o JoinNames(Tail(names))

Ellipsis == <<".", ".", ".">>

\* a wrong reading: the marker is added for ten names already
NeedsEllipsisAtLeast(names) == Len(names) >= MaxImportsShown

\* len(analysis['imports']) > 10
NeedsEllipsis(names) == Len(names) > MaxImportsShown

\* the parameters that get_refactoring_system_prompt renders into its template
get_refactoring_system_prompt(lang, profile) ==
    [kind |-> "refactoring_system",
     language |-> lang,
     analysis_language |-> profile.language,
     lines_of_code |-> profile.lines_of_code,
     functions |-> Len(profile.functions),
     classes |-> Len(profile.classes),
     complexity_indicators |-> profile.complexity_indicators,
     imports |-> Take(profile.imports, MaxImportsShown),
     ellipsis |-> NeedsEllipsis(profile.imports),
     imports_detected |-> JoinNames(Take(profile.imports, MaxImportsShown))
                          \o (IF NeedsEllipsis(profile.imports) THEN Ellipsis ELSE <<>>)]

\* the system prompt generate_script selects
GenerationPrompt(lang, task_type) ==
    [kind |-> IF task_type = "refactor" THEN "refactoring" ELSE "script_generation",
     language |-> lang]

\* open(project_dir / filename, 'w') succeeds: the path names neither the
\* project directory itself nor a file in a directory that does not exist
Writable(filename) ==
    /\ filename # <<>>
    /\ \A k \in 1..Len(filename) : filename[k] # "/"

\* self.output_dir of the object the operation belongs to
OutputDir(operation) ==
    IF operation \in Refactorers THEN "refactored_code" ELSE "generated_scripts"

\* self.output_dir / project_name / file_info["filename"]
PathOf(output_dir, project_name, filename) == <<output_dir, project_name, filename>>

\* a wrong reading: a file that exists is not written again
WrittenOnce(files_on_disk, filename, content) ==
    [name \in DOMAIN files_on_disk \cup {filename} |->
        IF name \in DOMAIN files_on_disk THEN files_on_disk[name] ELSE content]

\* the files under the output directory after a write
Written(files_on_disk, filename, content) ==
    [name \in DOMAIN files_on_disk \cup {filename} |->
        IF name = filename THEN content ELSE files_on_disk[name]]

\* a wrong reading: the saving operations persist whatever the result is
AfterResultAlwaysPersist(operation, success) ==
    IF operation \in Savers THEN "persist" ELSE "done"

\* where the invocation goes when refactor_code / generate_script has
\* produced its result
AfterResult(operation, success) ==
    IF operation \in Savers /\ success THEN "persist" ELSE "done"

\* a wrong reading: the refactoring starts by building the prompt
FirstStepIsPrompt(operation) == "prompt"

\* the first step of refactor_code / generate_script: only the refactoring
\* analyzes the code
FirstStep(operation) == IF operation \in Refactorers THEN "analyze" ELSE "prompt"

\* the last position of the character c in s, 0 if there is none
LastIndexOf(s, c) ==
    LET at == {i \in 1..Len(s) : s[i] = c}
    IN IF at = {} THEN 0 ELSE CHOOSE i \in at : \A j \in at : j <= i

\* Path(file_path).name: the last component of the path
NameOf(file_path) == SubSeq(file_path, LastIndexOf(file_path, "/") + 1, Len(file_path))

\* the suffix of a file name: from its last dot on, unless the dot is its
\* first or its last character
SuffixOfName(name, dot) ==
    IF 1 < dot /\ dot < Len(name) THEN SubSeq(name, dot, Len(name)) ELSE <<>>

\* Path(file_path).suffix
SuffixOf(file_path) == SuffixOfName(NameOf(file_path), LastIndexOf(NameOf(file_path), "."))

\* a wrong reading: .js files are not taken
DetectedLanguageNoJs(suffix) ==
    IF suffix = <<".", "p", "y">> THEN "python"
    ELSE IF suffix = <<".", "t", "s">> THEN "typescript"
    ELSE "none"

\* the language refactor_file infers from the suffix; "none" if it infers none
DetectedLanguage(suffix) ==
    IF suffix = <<".", "p", "y">> THEN "python"
    ELSE IF suffix \in {<<".", "t", "s">>, <<".", "j", "s">>} THEN "typescript"
    ELSE "none"

\* no file is asked for
NoRequest == [path |-> <<>>, exists |-> FALSE, readable |-> FALSE, language |-> "none"]

NotInvoked ==
    /\ pc = "idle"
    /\ calls = 0
    /\ prompt = NoPrompt
    /\ result = NoResult
    /\ raised = "none"
    /\ disk = <<>>
    /\ saved = <<>>
    /\ project = "none"
    /\ invocations = 0
    /\ before = <<>>
    /\ request = NoRequest
    /\ reads = 0

(***************************************************************************)
(* Inputs: a text is the concatenation of at most a bounded number of      *)
(* pieces drawn from an alphabet of pieces.                                *)
(***************************************************************************)

MaxDelimPieces == 5

MaxFencedPieces == 3

MaxFencePieces == 5

MaxLinePieces == 6

MaxCleanCalls == 2

MaxThresholdPieces == 4

Languages == {"python", "typescript"}

\* the language values given to parse_multi_file_response, which compares
\* the value with "python" only
GenerationLanguages == Languages \cup {"javascript", "Python"}

RECURSIVE Flatten(_, _)
Flatten(f, k) == IF k > Len(f) THEN <<>> ELSE f[k] \o Flatten(f, k + 1)

Texts(alphabet, n) ==
    {Flatten(f, 1) : f \in UNION {[1..k -> alphabet] : k \in 0..n}}

\* "=== FILENAME: a ==="
DelimA == DelimPrefix \o <<"a">> \o DelimSuffix

\* "=== FILENAME:  b  ===\n": a delimiter line; the captured name has blanks
\* around it
DelimB == DelimPrefix \o <<" ", "b", " ">> \o DelimSuffix \o <<NL>>

FencedA == Fence \o <<NL, "a", NL>> \o Fence

FencedB == Fence \o <<"p", "y", NL, " ", "b">> \o Fence

FencedC == Fence \o <<NL, "a", "b", NL>> \o Fence

\* responses that follow the delimiter convention, more or less
DelimTexts == Texts({DelimA, DelimB, <<"a">>, <<" ">>, <<NL>>}, MaxDelimPieces)

\* responses with fenced regions and no delimiter
FencedTexts == Texts({FencedA, FencedB, FencedC, Fence, <<"a">>, <<NL>>}, MaxFencedPieces)

\* cleaner inputs with fence markers and stray backquotes
FenceTexts == Texts({Fence, <<Backquote>>, <<"a">>, <<" ">>, <<NL>>}, MaxFencePieces)

\* cleaner inputs with blank lines and trailing blanks
LineTexts == Texts({<<"a">>, <<" ">>, <<NL>>}, MaxLinePieces)

\* a text of 49 characters, one short of MinExplanationLen
X49 == [k \in 1..(MinExplanationLen - 1) |-> "x"]

\* responses whose explanation is about MinExplanationLen characters long
ThresholdTexts ==
    Texts({X49, <<"x">>, <<" ">>, DelimA, FencedA}, MaxThresholdPieces)

(***************************************************************************)
(* State machine: one call of a parser, or successive calls of a cleaner   *)
(* on its own output.                                                      *)
(***************************************************************************)

\* pieces of Python sources: statements, a function header without a body
\* (DefF), a function indented as the body of such a header (FuncG1)
FromMB == <<"f", "r", "o", "m", " ", "m", " ", "i", "m", "p", "o", "r", "t", " ", "b", NL>>

FromDot == <<"f", "r", "o", "m", " ", ".", " ", "i", "m", "p", "o", "r", "t", " ", "c", NL>>

DefF == <<"d", "e", "f", " ", "f", "(", ")", ":", NL>>

FuncG1 == <<" ", "d", "e", "f", " ", "g", "(", ")", ":", NL, " ", " ", "p", "a", "s", "s", NL>>

FuncH == <<"d", "e", "f", " ", "h", "(", ")", ":", NL, " ", "p", "a", "s", "s", NL>>

AsyncK == <<"a", "s", "y", "n", "c", " ", "d", "e", "f", " ", "k", "(", ")", ":", NL, " ", "p", "a", "s", "s", NL>>

ClassC == <<"c", "l", "a", "s", "s", " ", "C", ":", NL, " ", "p", "a", "s", "s", NL>>

TryPass == <<"t", "r", "y", ":", NL, " ", "p", "a", "s", "s", NL>>

ExceptPass == <<"e", "x", "c", "e", "p", "t", ":", NL, " ", "p", "a", "s", "s", NL>>

TodoLine == <<"#", " ", "T", "O", "D", "O", NL>>

FixmeLine == <<"#", " ", "F", "I", "X", "M", "E", NL>>

MaxAnalyzePieces == 3

MaxLongPieces == 3

\* LargeFileLines - 1 line ends
ManyNewlines == [k \in 1..(LargeFileLines - 1) |-> NL]

AnalyzeTexts ==
    Texts({FromMB, FromDot, DefF, FuncG1, FuncH, AsyncK, ClassC, TryPass, ExceptPass,
           TodoLine, FixmeLine, <<Surrogate>>}, MaxAnalyzePieces)

LongTexts == Texts({ManyNewlines, <<NL>>, <<"x">>, TodoLine}, MaxLongPieces)

(***************************************************************************)
(* The Streamlit page of app.py.  Every interaction runs the script from   *)
(* its first line; st.session_state is kept from run to run of a session,  *)
(* and reading an attribute of it that was never set raises                *)
(* AttributeError, which ends the run.                                     *)
(***************************************************************************)

\* the session-state keys of the script
SessionKeys == {"ui_data", "api_data", "mapping_json", "ui_api_mapping_json", "ui_api_mappings"}

\* the buttons of the page
Buttons == {"match_button", "generate_button", "add_button", "remove_button",
            "match_ui_api_button"}

\* one statement of the script that touches the session state or shows a
\* widget: its line, what it does to which key or widget, and the conditions
\* under which it is executed
Statement_(line, does, key, when) == [line |-> line, does |-> does, key |-> key, when |-> when]

\* the statements of app.py, in the order of the script
Script ==
    << Statement_(18, "widget", "match_button", {}),
       Statement_(22, "read", "ui_data", {"match_button"}),
       Statement_(23, "write", "mapping_json", {"match_button"}),
       Statement_(25, "read", "mapping_json", {}),
       Statement_(30, "widget", "dom_files", {}),
       Statement_(33, "widget", "har_file", {}),
       Statement_(80, "init", "ui_data", {}),
       Statement_(82, "init", "api_data", {}),
       Statement_(84, "init", "mapping_json", {}),
       Statement_(86, "init", "ui_api_mapping_json", {}),
       Statement_(88, "init", "ui_api_mappings", {}),
       Statement_(91, "widget", "generate_button", {}),
       Statement_(97, "write", "ui_data", {"generate_button"}),
       Statement_(98, "write", "api_data", {"generate_button"}),
       Statement_(111, "read", "ui_data", {"generate_button"}),
       Statement_(112, "read", "api_data", {"generate_button"}),
       Statement_(127, "widget", "add_button", {}),
       Statement_(128, "append", "ui_api_mappings", {"add_button"}),
       Statement_(130, "read", "ui_api_mappings", {}),
       Statement_(131, "read", "ui_api_mappings", {"loop"}),
       Statement_(141, "widget", "remove_button", {"loop"}),
       Statement_(142, "pop", "ui_api_mappings", {"loop", "remove_button"}),
       Statement_(145, "widget", "match_ui_api_button", {"loop"}),
       Statement_(146, "read", "api_data", {"loop", "match_ui_api_button"}),
       Statement_(147, "read", "ui_data", {"loop", "match_ui_api_button", "dom_keyword"}),
       Statement_(155, "write", "ui_api_mapping_json", {"loop", "match_ui_api_button"}),
       Statement_(157, "read", "ui_api_mapping_json", {"loop"}) >>

\* what the user has done to the page to trigger a run: the button pressed,
\* the number of lines in the step definitions, the number of nodes and of
\* responses in the uploads, whether a DOM keyword is filled in
NoInput == [pressed |-> "none", step_lines |-> 0, nodes |-> 0, entries |-> 0,
            dom_keyword |-> FALSE]

\* the conditions that hold while a run is at a statement: the button that
\* was pressed, a mapping section to loop over, a DOM keyword
Active(session, input) ==
    {input.pressed}
    \cup (IF "ui_api_mappings" \in DOMAIN session /\ session["ui_api_mappings"] > 0
          THEN {"loop"} ELSE {})
    \cup (IF input.dom_keyword THEN {"dom_keyword"} ELSE {})

\* st.session_state.key = item
Put(session, key, item) ==
    [x \in DOMAIN session \cup {key} |-> IF x = key THEN item ELSE session[x]]

Smaller(a, b) == IF a < b THEN a ELSE b

\* the value a statement gives its key, as a size: the steps mapped, the
\* nodes and responses parsed, the mapping sections, a mapping text
ValueWritten(stmt, session, input) ==
    IF stmt.does = "append" THEN session[stmt.key] + 1
    ELSE IF stmt.does = "pop" THEN session[stmt.key] - 1
    ELSE IF stmt.does \in {"read", "widget"} THEN session[stmt.key]
    ELSE IF stmt.does = "init" THEN 0
    ELSE IF stmt.key = "mapping_json" THEN Smaller(input.step_lines, session["ui_data"])
    ELSE IF stmt.key = "ui_data" THEN input.nodes
    ELSE IF stmt.key = "api_data" THEN input.entries
    ELSE 1

\* how a run ends: the session state it leaves, the widgets it has shown,
\* and the line and key of the AttributeError (line 0, key "none" if the
\* script reached its end; the line of st.experimental_rerun() if the run
\* removed a mapping section and asked for a rerun)
RunEnds(session, shown, line, key) ==
    [session |-> session, shown |-> shown, line |-> line, key |-> key]

RECURSIVE RunFrom(_, _, _, _)
\* the script runs from its k-th statement on
RunFrom(k, session, shown, input) ==
    IF k > Len(Script) THEN RunEnds(session, shown, 0, "none")
    ELSE IF ~(Script[k].when \subseteq Active(session, input))
    THEN RunFrom(k + 1, session, shown, input)
    ELSE IF Script[k].does = "widget"
    THEN RunFrom(k + 1, session, shown \cup {Script[k].key}, input)
    ELSE IF Script[k].does = "init"
    THEN RunFrom(k + 1,
                 IF Script[k].key \in DOMAIN session THEN session
                 ELSE Put(session, Script[k].key, 0),
                 shown, input)
    ELSE IF Script[k].does = "write"
    THEN RunFrom(k + 1, Put(session, Script[k].key, ValueWritten(Script[k], session, input)),
                 shown, input)
    ELSE IF Script[k].key \notin DOMAIN session
    THEN RunEnds(session, shown, Script[k].line, Script[k].key)
    ELSE IF Script[k].does = "pop"
    THEN RunEnds(Put(session, Script[k].key, ValueWritten(Script[k], session, input)),
                 shown, Script[k].line + 1, "none")
    ELSE RunFrom(k + 1, Put(session, Script[k].key, ValueWritten(Script[k], session, input)),
                 shown, input)

\* the most lines the step definitions have
MaxStepLines == 3

\* the most parsed nodes or responses an upload has
MaxParsed == 1

\* the most runs of the script that are followed
MaxRuns == 14

\* no run yet
NoRun == [line |-> 0, key |-> "none"]

NotStarted ==
    /\ session_state = <<>>
    /\ rendered = {}
    /\ stopped = NoRun
    /\ script_runs = 0
    /\ given = NoInput

\* the inputs a run can have: only a widget the last run has shown can
\* have been used
Inputs ==
    [pressed : {"none"} \cup (rendered \cap Buttons),
     step_lines : 0..MaxStepLines,
     nodes : IF "dom_files" \in rendered THEN 0..MaxParsed ELSE {0},
     entries : IF "har_file" \in rendered THEN 0..MaxParsed ELSE {0},
     dom_keyword : IF "match_ui_api_button" \in rendered THEN BOOLEAN ELSE {FALSE}]

\* one run of the script, from its first line to its end or to the
\* exception that ends it
RunScript ==
    /\ script_runs < MaxRuns
    /\ script_runs' = script_runs + 1
    /\ given' \in Inputs
    /\ session_state' = RunFrom(1, session_state, {}, given').session
    /\ rendered' = RunFrom(1, session_state, {}, given').shown
    /\ stopped' = [line |-> RunFrom(1, session_state, {}, given').line,
                   key |-> RunFrom(1, session_state, {}, given').key]
    /\ UNCHANGED <<response, op, language, files, separated, cleaned, source, analysis>>
    /\ UNCHANGED pipeline

\* the page is opened in a new session: the session state is empty
NewSession ==
    /\ script_runs > 0
    /\ session_state' = <<>>
    /\ rendered' = {}
    /\ stopped' = NoRun
    /\ given' = NoInput
    /\ UNCHANGED script_runs
    /\ UNCHANGED <<response, op, language, files, separated, cleaned, source, analysis>>
    /\ UNCHANGED pipeline

InitParse ==
    /\ response \in DelimTexts \cup FencedTexts
    /\ op = "none"
    /\ language = "none"
    /\ files = <<>>
    /\ separated = <<>>
    /\ cleaned = <<>>
    /\ source = <<>>
    /\ analysis = NoAnalysis
    /\ NotInvoked
    /\ NotStarted

InitClean ==
    /\ response \in FenceTexts \cup LineTexts
    /\ op = "none"
    /\ language = "none"
    /\ files = <<>>
    /\ separated = <<>>
    /\ cleaned = <<>>
    /\ source = <<>>
    /\ analysis = NoAnalysis
    /\ NotInvoked
    /\ NotStarted

InitThreshold ==
    /\ response \in ThresholdTexts
    /\ op = "none"
    /\ language = "none"
    /\ files = <<>>
    /\ separated = <<>>
    /\ cleaned = <<>>
    /\ source = <<>>
    /\ analysis = NoAnalysis
    /\ NotInvoked
    /\ NotStarted

\* "=== FILENAME:  b  ===\na": one file, b
RespOne == DelimB \o <<"a">>

\* "=== FILENAME:   ===\na": the captured name is a blank
RespBlankName == DelimPrefix \o <<" ">> \o DelimSuffix \o <<NL, "a">>

\* "=== FILENAME: s/a ===\na": a file in a sub-directory
RespSubdir == DelimPrefix \o <<"s", "/", "a">> \o DelimSuffix \o <<NL, "a">>

\* a file b followed by a file with a blank name
RespPartial == RespOne \o <<NL>> \o RespBlankName

\* "=== FILENAME:  b  ===\nc": the file b with another content
RespOther == DelimB \o <<"c">>

\* the file b twice, with the content a and then with the content c
RespTwice == RespOne \o <<NL>> \o RespOther

\* what the completion service may answer
PipelineResponses ==
    {<<>>, <<"a">>, FencedA, RespOne, RespOther, RespTwice, RespBlankName, RespSubdir,
     RespPartial}

\* the paths given to refactor_file: a.py, a.ts, a.js, a.txt, a, d/.py
FilePaths ==
    {<<"a", ".", "p", "y">>, <<"a", ".", "t", "s">>, <<"a", ".", "j", "s">>,
     <<"a", ".", "t", "x", "t">>, <<"a">>, <<"d", "/", ".", "p", "y">>}

\* the project names given to the saving operations
Projects == {"p", "q"}

MaxInvocations == 2

\* the sources given to the refactoring operations: a function, a header
\* without a body, a text that cannot be encoded, the empty text
\* import c
ImportLine(c) == KwImport \o <<c, NL>>

RECURSIVE ImportLines(_)
ImportLines(names) ==
    IF names = <<>> THEN <<>> ELSE ImportLine(Head(names)) \o ImportLines(Tail(names))

TenImports == ImportLines(<<"a", "b", "c", "d", "e", "f", "g", "h", "i", "j">>)

ElevenImports == TenImports \o ImportLine("k")

PipelineSources == {FuncH, DefF, <<Surrogate>>, <<>>, TenImports, ElevenImports}

\* str(e) of the exceptions the completion call raises
ServiceErrors == {"quota exceeded", "connection reset"}

TaskTypes == {"script", "refactor"}

InitAnalyze ==
    /\ source \in AnalyzeTexts \cup LongTexts
    /\ response = <<>>
    /\ op = "none"
    /\ language = "none"
    /\ files = <<>>
    /\ separated = <<>>
    /\ cleaned = <<>>
    /\ analysis = NoAnalysis
    /\ NotInvoked
    /\ NotStarted

InitPipeline ==
    /\ response = <<>>
    /\ op = "none"
    /\ language = "none"
    /\ files = <<>>
    /\ separated = <<>>
    /\ cleaned = <<>>
    /\ source = <<>>
    /\ analysis = NoAnalysis
    /\ NotInvoked
    /\ NotStarted

\* a new browser session opens the page: nothing has run
InitApp ==
    /\ response = <<>>
    /\ op = "none"
    /\ language = "none"
    /\ files = <<>>
    /\ separated = <<>>
    /\ cleaned = <<>>
    /\ source = <<>>
    /\ analysis = NoAnalysis
    /\ NotInvoked
    /\ NotStarted

Init == InitParse \/ InitClean \/ InitThreshold \/ InitAnalyze \/ InitPipeline \/ InitApp

ParseRefactoredResponse ==
    /\ op = "none"
    /\ \E lang \in Languages :
          /\ files' = parse_refactored_response(response, lang)
          /\ language' = lang
    /\ op' = "parse_refactored_response"
    /\ UNCHANGED <<response, separated, cleaned, source, analysis>>
    /\ UNCHANGED pipeline
    /\ UNCHANGED app

ParseMultiFileResponse ==
    /\ op = "none"
    /\ \E lang \in GenerationLanguages :
          /\ files' = parse_multi_file_response(response, lang)
          /\ language' = lang
    /\ op' = "parse_multi_file_response"
    /\ UNCHANGED <<response, separated, cleaned, source, analysis>>
    /\ UNCHANGED pipeline
    /\ UNCHANGED app

SeparateExplanationAndCode ==
    /\ op = "none"
    /\ separated' = separate_explanation_and_code(response)
    /\ op' = "separate_explanation_and_code"
    /\ UNCHANGED <<response, language, files, cleaned, source, analysis>>
    /\ UNCHANGED pipeline
    /\ UNCHANGED app

\* the text the next call of a cleaner is given
CleanerArg == IF cleaned = <<>> THEN response ELSE cleaned[Len(cleaned)]

CleanAndValidateCode ==
    /\ op \in {"none", "clean_and_validate_code"}
    /\ Len(cleaned) < MaxCleanCalls
    /\ \E lang \in Languages :
          cleaned' = Append(cleaned, clean_and_validate_code(CleanerArg, lang))
    /\ op' = "clean_and_validate_code"
    /\ UNCHANGED <<response, language, files, separated, source, analysis>>
    /\ UNCHANGED pipeline
    /\ UNCHANGED app

CleanCodeContent ==
    /\ op \in {"none", "clean_code_content"}
    /\ Len(cleaned) < MaxCleanCalls
    /\ cleaned' = Append(cleaned, clean_code_content(CleanerArg))
    /\ op' = "clean_code_content"
    /\ UNCHANGED <<response, language, files, separated, source, analysis>>
    /\ UNCHANGED pipeline
    /\ UNCHANGED app

AnalyzeCodeStructure ==
    /\ op = "none"
    /\ source \in AnalyzeTexts \cup LongTexts
    /\ \E lang \in Languages :
          /\ analysis' = analyze_code_structure(source, lang)
          /\ language' = lang
    /\ op' = "analyze_code_structure"
    /\ UNCHANGED <<response, files, separated, cleaned, source>>
    /\ UNCHANGED pipeline
    /\ UNCHANGED app

\* a public operation is called with its arguments
Invoke ==
    /\ pc = "idle"
    /\ op = "none"
    /\ invocations < MaxInvocations
    /\ invocations' = invocations + 1
    /\ project' \in Projects
    /\ before' = disk
    /\ \E operation \in {"refactor_code"} \cup Savers \cup Generators, lang \in Languages :
          /\ op' = operation
          /\ language' = lang
          /\ pc' = FirstStep(operation)
          /\ IF operation \in Refactorers
             THEN source' \in PipelineSources
             ELSE source' = source
    /\ UNCHANGED <<response, files, separated, cleaned, analysis>>
    /\ UNCHANGED <<calls, prompt, result, raised, disk, saved, request, reads>>
    /\ UNCHANGED app

\* refactor_file is called for a path, with a language or with none
InvokeFile ==
    /\ pc = "idle"
    /\ op = "none"
    /\ invocations < MaxInvocations
    /\ invocations' = invocations + 1
    /\ before' = disk
    /\ op' = "refactor_file"
    /\ \E file_path \in FilePaths, exists \in BOOLEAN, readable \in BOOLEAN,
          lang \in Languages \cup {"none"} :
          /\ request' = [path |-> file_path, exists |-> exists, readable |-> readable,
                          language |-> lang]
          /\ language' = lang
    /\ pc' = "exists"
    /\ UNCHANGED <<response, files, separated, cleaned, source, analysis>>
    /\ UNCHANGED <<calls, prompt, result, raised, disk, saved, project, reads>>
    /\ UNCHANGED app

\* refactor_file: if not file_path.exists()
CheckExists ==
    /\ pc = "exists"
    /\ IF request.exists
       THEN pc' = "detect" /\ result' = result
       ELSE /\ result' = FailureAbout("File not found", request.path)
            /\ pc' = "done"
    /\ UNCHANGED <<response, op, language, files, separated, cleaned, source, analysis>>
    /\ UNCHANGED <<calls, prompt, raised, disk, saved, project, invocations, before,
                   request, reads>>
    /\ UNCHANGED app

\* refactor_file: the language is inferred from the suffix if none is given
DetectLanguage ==
    /\ pc = "detect"
    /\ IF language # "none"
       THEN pc' = "read" /\ UNCHANGED <<language, result>>
       ELSE IF DetectedLanguage(SuffixOf(request.path)) # "none"
       THEN /\ language' = DetectedLanguage(SuffixOf(request.path))
            /\ pc' = "read"
            /\ result' = result
       ELSE /\ result' = FailureAbout("Unsupported file type", SuffixOf(request.path))
            /\ pc' = "done"
            /\ language' = language
    /\ UNCHANGED <<response, op, files, separated, cleaned, source, analysis>>
    /\ UNCHANGED <<calls, prompt, raised, disk, saved, project, invocations, before,
                   request, reads>>
    /\ UNCHANGED app

\* refactor_file: the file is opened and read; an exception is reported
ReadFile ==
    /\ pc = "read"
    /\ reads' = reads + 1
    /\ IF request.readable
       THEN /\ source' \in PipelineSources
            /\ pc' = "analyze"
            /\ result' = result
       ELSE /\ result' = FailureAbout("Error reading file", <<>>)
            /\ pc' = "done"
            /\ source' = source
    /\ UNCHANGED <<response, op, language, files, separated, cleaned, analysis>>
    /\ UNCHANGED <<calls, prompt, raised, disk, saved, project, invocations, before,
                   request>>
    /\ UNCHANGED app

\* refactor_code: analysis = self.analyze_code_structure(code, language); an
\* exception is caught by the except clause of refactor_code
Analyze ==
    /\ pc = "analyze"
    /\ analysis' = analyze_code_structure(source, language)
    /\ IF analysis'.raised = "none"
       THEN pc' = "prompt" /\ result' = result
       ELSE /\ result' = Failure(analysis'.raised)
            /\ pc' = AfterResult(op, FALSE)
    /\ UNCHANGED <<response, op, language, files, separated, cleaned, source>>
    /\ UNCHANGED <<calls, prompt, raised, disk, saved, project, invocations, before, request, reads>>
    /\ UNCHANGED app

\* the system prompt is built
BuildPrompt ==
    /\ pc = "prompt"
    /\ IF op \in Refactorers
       THEN prompt' = get_refactoring_system_prompt(language, analysis)
       ELSE \E task_type \in TaskTypes : prompt' = GenerationPrompt(language, task_type)
    /\ pc' = "call"
    /\ UNCHANGED <<response, op, language, files, separated, cleaned, source, analysis>>
    /\ UNCHANGED <<calls, result, raised, disk, saved, project, invocations, before, request, reads>>
    /\ UNCHANGED app

\* self.model.generate_content(full_prompt) returns a text
CompletionReturns ==
    /\ pc = "call"
    /\ calls' = calls + 1
    /\ response' \in PipelineResponses
    /\ pc' = "parse"
    /\ UNCHANGED <<op, language, files, separated, cleaned, source, analysis>>
    /\ UNCHANGED <<prompt, result, raised, disk, saved, project, invocations, before, request, reads>>
    /\ UNCHANGED app

\* self.model.generate_content(full_prompt) raises; the except clause of
\* refactor_code / generate_script makes the failure result
CompletionRaises ==
    /\ pc = "call"
    /\ calls' = calls + 1
    /\ \E message \in ServiceErrors : result' = Failure(message)
    /\ pc' = AfterResult(op, FALSE)
    /\ UNCHANGED <<response, op, language, files, separated, cleaned, source, analysis>>
    /\ UNCHANGED <<prompt, raised, disk, saved, project, invocations, before, request, reads>>
    /\ UNCHANGED app

\* the response is parsed into records and the success result is made
ParseResponse ==
    /\ pc = "parse"
    /\ files' = IF op \in Refactorers
                THEN parse_refactored_response(response, language)
                ELSE parse_multi_file_response(response, language)
    /\ result' = Success(files')
    /\ pc' = AfterResult(op, TRUE)
    /\ UNCHANGED <<response, op, language, separated, cleaned, source, analysis>>
    /\ UNCHANGED <<calls, prompt, raised, disk, saved, project, invocations, before, request, reads>>
    /\ UNCHANGED app

\* save_refactored_files / save_files: the next record is written
PersistRecord ==
    /\ pc = "persist"
    /\ Len(saved) < Len(result.files)
    /\ LET record == result.files[Len(saved) + 1]
       IN /\ Writable(record.filename)
          /\ disk' = Written(disk, PathOf(OutputDir(op), project, record.filename), record.content)
          /\ saved' = Append(saved, PathOf(OutputDir(op), project, record.filename))
    /\ UNCHANGED <<response, op, language, files, separated, cleaned, source, analysis>>
    /\ UNCHANGED <<pc, calls, prompt, result, raised, project, invocations, before, request, reads>>
    /\ UNCHANGED app

\* save_refactored_files / save_files: open() raises for the next record;
\* nothing catches it in refactor_and_save / generate_and_save
PersistRaises ==
    /\ pc = "persist"
    /\ Len(saved) < Len(result.files)
    /\ ~Writable(result.files[Len(saved) + 1].filename)
    /\ raised' = "OSError"
    /\ pc' = "done"
    /\ UNCHANGED <<response, op, language, files, separated, cleaned, source, analysis>>
    /\ UNCHANGED <<calls, prompt, result, disk, saved, project, invocations, before, request, reads>>
    /\ UNCHANGED app

\* every record is written: result["saved_files"] = saved_files
PersistDone ==
    /\ pc = "persist"
    /\ Len(saved) = Len(result.files)
    /\ result' = [result EXCEPT !.saved_files = saved]
    /\ pc' = "done"
    /\ UNCHANGED <<response, op, language, files, separated, cleaned, source, analysis>>
    /\ UNCHANGED <<calls, prompt, raised, disk, saved, project, invocations, before, request, reads>>
    /\ UNCHANGED app

\* the operation has returned or raised; the next invocation finds the files
\* of the earlier ones
Return ==
    /\ pc = "done"
    /\ invocations < MaxInvocations
    /\ pc' = "idle"
    /\ op' = "none"
    /\ language' = "none"
    /\ response' = <<>>
    /\ files' = <<>>
    /\ source' = <<>>
    /\ analysis' = NoAnalysis
    /\ calls' = 0
    /\ prompt' = NoPrompt
    /\ result' = NoResult
    /\ raised' = "none"
    /\ saved' = <<>>
    /\ request' = NoRequest
    /\ reads' = 0
    /\ UNCHANGED <<separated, cleaned, disk, project, invocations, before>>
    /\ UNCHANGED app

NextParse ==
    \/ ParseRefactoredResponse
    \/ ParseMultiFileResponse
    \/ SeparateExplanationAndCode

NextClean ==
    \/ CleanAndValidateCode
    \/ CleanCodeContent

NextAnalyze == AnalyzeCodeStructure

NextPipeline ==
    \/ Invoke
    \/ InvokeFile
    \/ CheckExists
    \/ DetectLanguage
    \/ ReadFile
    \/ Analyze
    \/ BuildPrompt
    \/ CompletionReturns
    \/ CompletionRaises
    \/ ParseResponse
    \/ PersistRecord
    \/ PersistRaises
    \/ PersistDone
    \/ Return

NextApp ==
    \/ RunScript
    \/ NewSession

Next == NextParse \/ NextClean \/ NextAnalyze \/ NextPipeline \/ NextApp

SpecParse == InitParse /\ [][NextParse]_vars

SpecClean == InitClean /\ [][NextClean]_vars

SpecThreshold == InitThreshold /\ [][NextParse]_vars

SpecAnalyze == InitAnalyze /\ [][NextAnalyze]_vars

SpecPipeline == InitPipeline /\ [][NextPipeline]_vars

SpecApp == InitApp /\ [][NextApp]_vars

Spec == Init /\ [][Next]_vars

(***************************************************************************)
(* Vocabulary of the properties                                            *)
(***************************************************************************)

Parsers == {"parse_refactored_response", "parse_multi_file_response"}

\* the texts captured by the delimiter pattern, in order of appearance
DelimNames == ReFindAll("file_pattern", response)

NumDelims == Len(DelimNames)

\* leading segment, name 1, content 1, name 2, content 2, ...
Parts == ReSplit("file_pattern", response)

IsCode(r) == r.type = "code"

IsDoc(r) == r.type = "documentation"

CodeRecords == SelectSeq(files, IsCode)

DocRecords == SelectSeq(files, IsDoc)

FenceFree(s) == FindLit(s, 1, Fence) = 0

IsBlank(line) == \A k \in 1..Len(line) : line[k] \in Whitespace

\* the lines of a text; the empty text has none
LinesOf(s) == IF s = <<>> THEN <<>> ELSE SplitLines(s)

RECURSIVE BlankRunsFrom(_, _, _)
\* lengths of the maximal runs of blank lines of lines[k..], in order; run is
\* the length of the run that ends before k
BlankRunsFrom(lines, k, run) ==
    IF k > Len(lines) THEN (IF run > 0 THEN <<run>> ELSE <<>>)
    ELSE IF IsBlank(lines[k]) THEN BlankRunsFrom(lines, k + 1, run + 1)
    ELSE (IF run > 0 THEN <<run>> ELSE <<>>) \o BlankRunsFrom(lines, k + 1, 0)

BlankRuns(lines) == BlankRunsFrom(lines, 1, 0)

Min2(n) == IF n > 2 THEN 2 ELSE n

Capped(runs) == [k \in 1..Len(runs) |-> Min2(runs[k])]

EndsBlank(lines) == Len(lines) > 0 /\ IsBlank(lines[Len(lines)])

\* the runs without the one that reaches the end of the text
InnerRuns(lines) ==
    LET runs == BlankRuns(lines)
    IN IF EndsBlank(lines) THEN SubSeq(runs, 1, Len(runs) - 1) ELSE runs

NoTrailingBlank(line) == line = <<>> \/ line[Len(line)] \notin Whitespace

(***************************************************************************)
(* Properties of the parsers (SpecParse)                                   *)
(***************************************************************************)

\* C1: a response with no match of the delimiter pattern is parsed by
\* parse_refactored_response into one code record, or into one documentation
\* record followed by one code record; never zero records, never more than two.
C1_SingleFileOneOrTwoRecords ==
    (op = "parse_refactored_response" /\ NumDelims = 0) =>
        \/ Len(files) = 1 /\ IsCode(files[1])
        \/ Len(files) = 2 /\ IsDoc(files[1]) /\ IsCode(files[2])

\* C2: a response with N >= 1 matches of the delimiter pattern is parsed, by
\* either parser, into exactly N code records whose filenames are the trimmed
\* captured names in order of appearance, plus at most one documentation
\* record, which is then the first record.
C2_OneCodeRecordPerDelimiter ==
    (op \in Parsers /\ NumDelims >= 1) =>
        /\ Len(CodeRecords) = NumDelims
        /\ \A k \in 1..NumDelims : CodeRecords[k].filename = Strip(DelimNames[k])
        /\ Len(DocRecords) <= 1
        /\ Len(files) = Len(CodeRecords) + Len(DocRecords)
        /\ \A k \in 2..Len(files) : IsCode(files[k])

\* two delimiters with different names after a leading text: a documentation
\* record, then the code records b and a in the order of the response
C2_Witness ==
    /\ op = "parse_multi_file_response"
    /\ NumDelims = 2
    /\ Len(files) = 3
    /\ IsDoc(files[1])
    /\ files[2].filename = <<"b">>
    /\ files[3].filename = <<"a">>

\* C3: when nothing but whitespace follows the last delimiter, the parser
\* emits no record for that filename; the records of the earlier delimiters
\* are still emitted.
C3_DanglingDelimiterDropped ==
    (op \in Parsers /\ NumDelims >= 1 /\ Strip(Parts[Len(Parts)]) = <<>>) =>
        /\ Len(CodeRecords) = NumDelims - 1
        /\ \A k \in 1..(NumDelims - 1) : CodeRecords[k].filename = Strip(DelimNames[k])

\* the response is made only of delimiter lines, each followed by fence-free
\* content: nothing before the first delimiter, each delimiter at the start
\* of a line and followed by a line break, content not empty
OnlyDelimitedContent ==
    /\ NumDelims >= 1
    /\ Parts[1] = <<>>
    /\ \A k \in 1..NumDelims :
          LET c == Parts[2 * k + 1]
          IN /\ Strip(c) # <<>>
             /\ FenceFree(c)
             /\ c[1] = NL
             /\ k < NumDelims => c[Len(c)] = NL

\* one code record per delimiter, content the trimmed segment, and no
\* documentation record
TrimmedSegments ==
    [k \in 1..NumDelims |->
        Record(Strip(Parts[2 * k]), Strip(Parts[2 * k + 1]), "code")]

\* C4 as stated: for a response made only of delimiter lines each followed by
\* fence-free content, parsing yields one code record per delimiter whose
\* content is the following segment with leading and trailing whitespace
\* removed, and no documentation record.
C4_ContentIsTrimmedSegment ==
    (op \in Parsers /\ OnlyDelimitedContent) => files = TrimmedSegments

\* no line of the trimmed segment ends with whitespace and there is no run of
\* three or more blank lines in it
Tidy(c) ==
    LET lines == LinesOf(Strip(c))
    IN /\ \A k \in 1..Len(lines) : NoTrailingBlank(lines[k])
       /\ \A k \in 1..Len(BlankRuns(lines)) : BlankRuns(lines)[k] <= 2

\* C4 (amended): for a response made only of delimiter lines each followed by
\* fence-free content in which no line ends with whitespace and no three
\* blank lines follow each other, parsing yields one code record per
\* delimiter whose content is the following segment with leading and trailing
\* whitespace removed, and no documentation record.
C4_TidyContentIsTrimmedSegment ==
    (/\ op \in Parsers
     /\ OnlyDelimitedContent
     /\ \A k \in 1..NumDelims : Tidy(Parts[2 * k + 1]))
        => files = TrimmedSegments

\* two delimiter lines, each followed by a line of content
C4_Witness ==
    /\ op = "parse_refactored_response"
    /\ OnlyDelimitedContent
    /\ NumDelims = 2
    /\ \A k \in 1..NumDelims : Tidy(Parts[2 * k + 1])
    /\ Len(files) = 2
    /\ files[1].content = <<"a">>
    /\ files[2].content = <<"a">>

\* the fenced regions of the response, as the single-file path finds them
CodeBlocks == ReFindAll("code_block", response)

\* C10: in the single-file path, when the response has fenced code regions,
\* the code payload is (the trimmed text of) the region of greatest length,
\* and among regions of that length the first one of the response.
C10_LongestBlockFirstOnTies ==
    (op = "separate_explanation_and_code" /\ CodeBlocks # <<>>) =>
        \E k \in 1..Len(CodeBlocks) :
            /\ separated[2] = Strip(CodeBlocks[k])
            /\ \A j \in 1..Len(CodeBlocks) : Len(CodeBlocks[j]) <= Len(CodeBlocks[k])
            /\ \A j \in 1..(k - 1) : Len(CodeBlocks[j]) < Len(CodeBlocks[k])

\* two regions of the same length and different text: the first is chosen
C10_Witness ==
    /\ op = "separate_explanation_and_code"
    /\ Len(CodeBlocks) = 2
    /\ Len(CodeBlocks[1]) = Len(CodeBlocks[2])
    /\ Strip(CodeBlocks[1]) # Strip(CodeBlocks[2])
    /\ separated[2] = Strip(CodeBlocks[1])

(***************************************************************************)
(* Properties of the documentation record (SpecThreshold, SpecParse)       *)
(***************************************************************************)

RECURSIVE NonSpaceFrom(_, _)
NonSpaceFrom(s, k) ==
    IF k > Len(s) THEN 0
    ELSE (IF s[k] \in Whitespace THEN 0 ELSE 1) + NonSpaceFrom(s, k + 1)

\* number of non-whitespace characters of s
NonSpaceCount(s) == NonSpaceFrom(s, 1)

\* the response with every fenced region removed, when it has a code region
SingleFileExplanation ==
    IF CodeBlocks # <<>> THEN ReSubEmpty("fenced", response) ELSE <<>>

\* C11: in the single-file path of parse_refactored_response, a documentation
\* record is emitted if and only if the explanation (the response with every
\* fenced region removed) has more than 50 non-whitespace characters.
C11_SingleFileDocOverThreshold ==
    (op = "parse_refactored_response" /\ NumDelims = 0) =>
        (DocRecords # <<>> <=> NonSpaceCount(SingleFileExplanation) > MinExplanationLen)

\* the text before the first delimiter with every fenced region removed
LeadingText == ReSubEmpty("fenced", Parts[1])

\* C12 as stated: in the multi-file path of parse_refactored_response, a
\* documentation record named REFACTORING_NOTES.md is emitted if and only if
\* the leading segment, with all fenced code blocks removed, has more than 50
\* non-whitespace characters; its content is that text under the heading
\* "# Refactoring Notes".
C12_NotesOverNonSpaceThreshold ==
    (op = "parse_refactored_response" /\ NumDelims >= 1) =>
        /\ DocRecords # <<>> <=> NonSpaceCount(LeadingText) > MinExplanationLen
        /\ DocRecords # <<>> =>
              files[1] = Record(NotesName, NotesHeading \o Strip(LeadingText), "documentation")

\* C12 (amended): in the multi-file path of parse_refactored_response, a
\* documentation record named REFACTORING_NOTES.md is emitted if and only if
\* the leading segment, with all fenced code blocks removed and leading and
\* trailing whitespace trimmed, is more than 50 characters long (whitespace
\* inside it counts); its content is that text under the heading
\* "# Refactoring Notes".
C12_NotesOverLengthThreshold ==
    (op = "parse_refactored_response" /\ NumDelims >= 1) =>
        /\ DocRecords # <<>> <=> Len(Strip(LeadingText)) > MinExplanationLen
        /\ DocRecords # <<>> =>
              files[1] = Record(NotesName, NotesHeading \o Strip(LeadingText), "documentation")

\* a leading segment of 51 characters, 50 of them not whitespace: the notes
\* are emitted
C12_Witness ==
    /\ op = "parse_refactored_response"
    /\ NumDelims = 1
    /\ Len(Strip(LeadingText)) = MinExplanationLen + 1
    /\ NonSpaceCount(LeadingText) = MinExplanationLen
    /\ Len(files) = 2
    /\ files[1].filename = NotesName

\* C13: in the multi-file path of parse_multi_file_response, a documentation
\* record (README.md) is emitted only when the leading segment, with all
\* fenced code blocks removed, has more than 50 non-whitespace characters.
C13_ReadmeOverThreshold ==
    (op = "parse_multi_file_response" /\ NumDelims >= 1) =>
        (DocRecords # <<>> => NonSpaceCount(LeadingText) > MinExplanationLen)

\* C14: in the single-file path of parse_refactored_response, when the
\* response has no fenced code region, the explanation is empty, the code
\* payload is the whole trimmed response, and no documentation record is
\* emitted.
C14_NoBlockWholeResponseIsCode ==
    (NumDelims = 0 /\ CodeBlocks = <<>>) =>
        /\ op = "separate_explanation_and_code" =>
              separated = <<(<<>>), Strip(response)>>
        /\ op = "parse_refactored_response" =>
              /\ DocRecords = <<>>
              /\ Len(files) <= 1
              /\ \A k \in 1..Len(files) :
                    files[k].content = clean_and_validate_code(Strip(response), language)

\* a response with fence markers that enclose no code region (no line break
\* after the opening marker): one code record, no documentation
C14_Witness ==
    /\ op = "parse_refactored_response"
    /\ NumDelims = 0
    /\ CodeBlocks = <<>>
    /\ ~FenceFree(response)
    /\ Strip(ReSubEmpty("fenced", response)) # Strip(response)
    /\ Len(files) = 1
    /\ IsCode(files[1])

(***************************************************************************)
(* Properties of the structural analyzer                                   *)
(***************************************************************************)

\* analyze_code_structure has returned a profile
Profiled == op = "analyze_code_structure" /\ analysis.raised = "none"

HasFlag(flag) == \E k \in 1..Len(analysis.complexity_indicators) :
                    analysis.complexity_indicators[k] = flag

\* the number of newline-delimited lines of the source
LineCount == NewlinesFrom(source, 1) + 1

\* C15: the profile counts the newline-delimited lines of the source (the
\* empty text has one), and it has the large-file flag if and only if that
\* count exceeds 500: 501 lines are flagged, 500 lines are not.
C15_LargeFileIffOver500Lines ==
    Profiled =>
        /\ analysis.lines_of_code = LineCount
        /\ (source = <<>> => analysis.lines_of_code = 1)
        /\ (HasFlag(FlagLarge) <=> LineCount > 500)
        /\ (LineCount = 501 => HasFlag(FlagLarge))
        /\ (LineCount = 500 => ~HasFlag(FlagLarge))

C15_Witness == Profiled /\ LineCount = 501 /\ HasFlag(FlagLarge)

\* the source, read as text, has the literal somewhere
Occurs(lit) ==
    \E i \in 1..(Len(source) - Len(lit) + 1) : SubSeq(source, i, i + Len(lit) - 1) = lit

\* the structured parse of the source was attempted and failed with a
\* syntax error
SyntaxErrorFound == language = "python" /\ AstParse(source).raised = "SyntaxError"

\* C16: whatever the language, and whether the structured parse succeeded or
\* failed with a syntax error, the profile has the bare-except flag whenever
\* the source contains "except:" and the TODO/FIXME flag whenever it contains
\* "TODO" or "FIXME".
C16_TextFlagsIndependentOfParse ==
    Profiled =>
        /\ (Occurs(KwExcept) => HasFlag(FlagExcept))
        /\ (Occurs(KwTodo) \/ Occurs(KwFixme) => HasFlag(FlagTodo))

C16_Witness ==
    /\ Profiled
    /\ SyntaxErrorFound
    /\ Occurs(KwExcept) /\ HasFlag(FlagExcept)
    /\ Occurs(KwFixme) /\ ~Occurs(KwTodo) /\ HasFlag(FlagTodo)

\* the structured parse of the source was attempted and failed
ParseFailed == language = "python" /\ AstParse(source).raised # "none"

\* C17: when the structured parse of the source fails, analyze_code_structure
\* still returns a profile: it has the syntax-errors flag and no import,
\* function or class names.
C17_ParseFailureIsDegradation ==
    op = "analyze_code_structure" /\ ParseFailed =>
        /\ analysis.raised = "none"
        /\ HasFlag(FlagSyntax)
        /\ analysis.imports = <<>>
        /\ analysis.functions = <<>>
        /\ analysis.classes = <<>>

\* the structured parse of the source succeeded
ParseSucceeded == language = "python" /\ AstParse(source).raised = "none"

\* C18: on a successful parse the function names of the profile are the
\* names of the def statements of the source in the order of their lines, so
\* that a function nested in an earlier definition comes before a top-level
\* function defined later.
C18_FunctionsInFileOrder ==
    Profiled /\ ParseSucceeded =>
        analysis.functions = NamesOf(Tokens(source), {"def"}, 1)

(***************************************************************************)
(* Properties of the public operations                                     *)
(***************************************************************************)

\* C19: an invocation of a public operation ends by returning a result; no
\* exception leaves the operation, also when a record cannot be written.
C19_NoExceptionCrossesBoundary == pc = "done" => raised = "none"

\* C20: a step in which the completion call fails makes the failure result
\* that carries the message of the failure and ends the invocation: it is
\* the only completion call of the invocation, no record is parsed and no
\* file is written.
C20_CompletionFailureEndsInvocation ==
    [][pc = "call" /\ pc' # "parse" =>
          /\ \E message \in ServiceErrors : result' = Failure(message)
          /\ calls' = 1
          /\ pc' = "done"
          /\ raised' = "none"
          /\ files' = <<>>
          /\ disk' = disk /\ saved' = <<>>]_vars

C20_Witness ==
    /\ pc = "done"
    /\ op \in Savers
    /\ calls = 1
    /\ result.error \in ServiceErrors
    /\ ~result.success
    /\ disk = <<>>

\* the invocation has ended in a failure: a failure result or an exception
Failed == pc = "done" /\ (raised # "none" \/ ~result.success)

\* C21: when an invocation of refactor_and_save has failed, every file that
\* was there when it started, written by earlier invocations, still has the
\* content it had.
C21_FailureKeepsEarlierFiles ==
    Failed /\ op = "refactor_and_save" =>
        \A path \in DOMAIN before : disk[path] = before[path]

\* the records of the result that have the given filename, by position
RecordsNamed(filename) ==
    {k \in 1..Len(result.files) : result.files[k].filename = filename}

\* the last record of the result with the given filename
LastNamed(filename) ==
    result.files[CHOOSE k \in RecordsNamed(filename) :
                    \A j \in RecordsNamed(filename) : j <= k]

\* a saving operation has returned after writing every record
Saved == pc = "done" /\ op \in Savers /\ result.success /\ raised = "none"

\* C22: when a save has completed, the list of saved paths has one entry per
\* record, in record order, and every file named by a record holds the
\* content of the last record with that name; records with the same name are
\* no error.
C22_LastSameNamedRecordWins ==
    Saved =>
        /\ Len(result.saved_files) = Len(result.files)
        /\ \A k \in 1..Len(result.files) :
              /\ result.saved_files[k] = PathOf(OutputDir(op), project, result.files[k].filename)
              /\ disk[result.saved_files[k]] = LastNamed(result.files[k].filename).content

C22_Witness ==
    /\ Saved
    /\ \E j, k \in 1..Len(result.files) :
          /\ j < k
          /\ result.files[j].filename = result.files[k].filename
          /\ result.files[j].content # result.files[k].content
          /\ disk[result.saved_files[j]] = result.files[k].content

(***************************************************************************)
(* Properties of the cleaners (SpecClean)                                  *)
(***************************************************************************)

Cleaners == {"clean_and_validate_code", "clean_code_content"}

\* C5: both cleaners are idempotent: cleaning the output of a cleaner again
\* gives that output.
C5_CleanIdempotent ==
    op \in Cleaners => \A k \in 2..Len(cleaned) : cleaned[k] = cleaned[k - 1]

\* removing the fence marker in the middle brings three backquotes together;
\* the second call is given the output of the first
C5_Witness ==
    /\ op = "clean_code_content"
    /\ response = <<Backquote>> \o Fence \o <<NL, Backquote, Backquote>>
    /\ Len(cleaned) = 2
    /\ cleaned[1] # response

\* the lines of the input of clean_and_validate_code once the fence markers
\* are removed
StrippedLines == SplitLines(StripFencesRefactor(response))

\* C6 as stated: the output of clean_and_validate_code has no more than 2
\* consecutive blank lines: every run of 3 or more blank lines of the
\* fence-stripped input becomes exactly 2 empty lines, and runs of 1 or 2 are
\* kept at their length.
C6_BlankRunsCapped ==
    (op = "clean_and_validate_code") =>
        LET out == LinesOf(cleaned[1])
        IN /\ BlankRuns(out) = Capped(BlankRuns(StrippedLines))
           /\ \A k \in 1..Len(out) : IsBlank(out[k]) => out[k] = <<>>

\* C6 (amended): the output of clean_and_validate_code has no more than 2
\* consecutive blank lines: every run of 3 or more blank lines of the
\* fence-stripped input that is followed by a non-blank line becomes exactly
\* 2 empty lines, such runs of 1 or 2 are kept at their length, and a run
\* that reaches the end of the text is removed.
C6_InnerBlankRunsCapped ==
    (op = "clean_and_validate_code") =>
        LET out == LinesOf(cleaned[1])
        IN /\ BlankRuns(out) = Capped(InnerRuns(StrippedLines))
           /\ \A k \in 1..Len(BlankRuns(out)) : BlankRuns(out)[k] <= 2
           /\ \A k \in 1..Len(out) : IsBlank(out[k]) => out[k] = <<>>

\* a run of three blank lines between two lines of text becomes two, and a
\* run of one is kept
C6_Witness ==
    /\ op = "clean_and_validate_code"
    /\ \E k \in 1..Len(BlankRuns(StrippedLines)) : BlankRuns(StrippedLines)[k] >= 3
    /\ ~EndsBlank(StrippedLines)
    /\ BlankRuns(LinesOf(cleaned[1])) = <<2>>

\* C7: clean_code_content collapses runs of 3 or more consecutive blank lines
\* to exactly 2: its output never has more than 2 consecutive blank lines.
C7_GenerateBlankRunsCapped ==
    (op = "clean_code_content") =>
        \A k \in 1..Len(BlankRuns(LinesOf(cleaned[1]))) :
            BlankRuns(LinesOf(cleaned[1]))[k] <= 2

\* C8: the output of either cleaner contains no three adjacent backquotes.
C8_NoFenceInOutput ==
    op \in Cleaners => \A k \in 1..Len(cleaned) : FenceFree(cleaned[k])

\* the input has a fence marker whose removal brings three backquotes
\* together, and the first call leaves nothing of them
C8_Witness ==
    /\ op = "clean_code_content"
    /\ ~FenceFree(response)
    /\ ~FenceFree(StripFencesGenerateOnce(response))
    /\ Len(cleaned) = 1
    /\ FenceFree(cleaned[1])

\* C9: no line of the output of clean_and_validate_code ends with a
\* whitespace character, and the output does not end with a blank line.
C9_NoTrailingWhitespace ==
    (op = "clean_and_validate_code") =>
        \A k \in 1..Len(cleaned) :
            LET out == LinesOf(cleaned[k])
            IN /\ \A n \in 1..Len(out) : NoTrailingBlank(out[n])
               /\ ~EndsBlank(out)

\* a line with trailing blanks followed by blank lines: only the text is left
C9_Witness ==
    /\ op = "clean_and_validate_code"
    /\ response = <<"a", " ", NL, " ", NL>>
    /\ cleaned = <<(<<"a">>)>>

\* refactor_file has gone past the inference of the language
Inferred == op = "refactor_file" /\ request.exists /\ request.language = "none"
            /\ pc \notin {"exists", "detect"}

\* C23: refactor_file infers the language from the extension when none is
\* given (.py gives python, .ts and .js give typescript); for an existing
\* file with any other extension it returns a failure naming the unsupported
\* type, without reading the file and without a completion call; a missing
\* file is reported as a failure, whatever its extension, with nothing read.
C23_RefactorFileInfersLanguage ==
    /\ Inferred /\ SuffixOf(request.path) = <<".", "p", "y">> => language = "python"
    /\ Inferred /\ SuffixOf(request.path) \in {<<".", "t", "s">>, <<".", "j", "s">>} =>
          language = "typescript"
    /\ Inferred /\ SuffixOf(request.path) \notin
                    {<<".", "p", "y">>, <<".", "t", "s">>, <<".", "j", "s">>} =>
          /\ pc = "done"
          /\ result = FailureAbout("Unsupported file type", SuffixOf(request.path))
          /\ reads = 0
          /\ calls = 0
    /\ op = "refactor_file" /\ ~request.exists /\ pc # "exists" =>
          /\ pc = "done"
          /\ result = FailureAbout("File not found", request.path)
          /\ language = request.language
          /\ reads = 0
          /\ calls = 0

C23_Witness ==
    /\ Inferred
    /\ pc = "done"
    /\ request.path = <<"a", ".", "t", "x", "t">>
    /\ result.error = "Unsupported file type"
    /\ result.about = <<".", "t", "x", "t">>


\* the refactoring prompt has been built from the profile
PromptBuilt == op \in Refactorers /\ pc \in {"call", "parse", "persist", "done"}
               /\ prompt.kind = "refactoring_system"

Shown == IF Len(analysis.imports) < 10 THEN Len(analysis.imports) ELSE 10

\* C24: the import list rendered into the prompt is exactly the first 10
\* import names of the profile, in order, joined by ", ", followed by the
\* ellipsis marker if and only if the profile has more than 10 import names.
C24_PromptShowsFirstTenImports ==
    PromptBuilt =>
        /\ Len(prompt.imports) = Shown
        /\ \A k \in 1..Shown : prompt.imports[k] = analysis.imports[k]
        /\ prompt.ellipsis <=> Len(analysis.imports) > 10
        /\ prompt.imports_detected =
              JoinNames(prompt.imports) \o (IF Len(analysis.imports) > 10 THEN Ellipsis ELSE <<>>)

C24_Witness ==
    /\ PromptBuilt
    /\ Len(analysis.imports) = 11
    /\ Len(prompt.imports) = 10
    /\ prompt.imports[10] = <<"j">>
    /\ HasSuffix(prompt.imports_detected, <<"i", ",", " ", "j", ".", ".", ".">>)

C24_WitnessTen ==
    /\ PromptBuilt
    /\ Len(analysis.imports) = 10
    /\ HasSuffix(prompt.imports_detected, <<"i", ",", " ", "j">>)


\* the steps of a saving operation that may follow one another directly
StepOrder ==
    {<<"idle", "analyze">>, <<"idle", "prompt">>, <<"analyze", "prompt">>,
     <<"analyze", "done">>, <<"prompt", "call">>, <<"call", "parse">>,
     <<"call", "done">>, <<"parse", "persist">>, <<"persist", "persist">>,
     <<"persist", "done">>, <<"done", "idle">>}

\* C25: in every run of refactor_and_save / generate_and_save the steps go
\* in the order analyze (refactoring only), build prompt, completion call,
\* parse, persist, one at a time: a file is written only in the persist
\* step, after the one completion call has returned and the whole record
\* list has been parsed from its response, and persist starts only from the
\* parse step with a success result.
C25_StepsInOrder ==
    [][op' \in Savers =>
          /\ <<pc, pc'>> \in StepOrder
          /\ pc' = "analyze" => op' = "refactor_and_save"
          /\ pc' = "prompt" /\ op' = "refactor_and_save" => pc = "analyze"
          /\ pc' = "prompt" /\ op' = "generate_and_save" => pc = "idle"
          /\ pc' = "persist" /\ pc # "persist" => pc = "parse" /\ result'.success
          /\ disk' # disk =>
                /\ pc = "persist"
                /\ calls = 1
                /\ result.success
                /\ result.files = files
                /\ files = IF op = "refactor_and_save"
                           THEN parse_refactored_response(response, language)
                           ELSE parse_multi_file_response(response, language)
                /\ Len(saved') = Len(saved) + 1]_vars

C25_Witness ==
    /\ pc = "done"
    /\ op = "refactor_and_save"
    /\ analysis.language = language
    /\ prompt.kind = "refactoring_system"
    /\ calls = 1
    /\ result.success
    /\ Len(result.files) = 2
    /\ Len(result.saved_files) = 2
    /\ disk # before


\* parse_multi_file_response has parsed a response without a delimiter
SingleGenerated == op = "parse_multi_file_response" /\ NumDelims = 0

\* C26: in generation mode, for a response with no delimiter match (the
\* empty response included), parse_multi_file_response returns exactly one
\* record, a code record named generated_script.py when the language is
\* "python" and generated_script.ts for every other language value, whose
\* content is clean_code_content of the whole response; there is no
\* documentation record.
C26_SingleGeneratedScript ==
    SingleGenerated =>
        /\ Len(files) = 1
        /\ files[1].type = "code"
        /\ language = "python" => files[1].filename = GeneratedStem \o <<"p", "y">>
        /\ language # "python" => files[1].filename = GeneratedStem \o <<"t", "s">>
        /\ files[1].content = clean_code_content(response)
        /\ DocRecords = <<>>

C26_Witness ==
    /\ SingleGenerated
    /\ language = "javascript"
    /\ response # <<>>
    /\ files[1].content # response
    /\ files[1].filename = GeneratedStem \o <<"t", "s">>

C26_WitnessEmpty ==
    /\ SingleGenerated
    /\ language = "python"
    /\ response = <<>>
    /\ files = <<Record(GeneratedStem \o <<"p", "y">>, <<>>, "code")>>


\* C27: in every run of the page script, the first run of a new session and
\* a run triggered by 'Match Step Definitions to UI Actions' included, no
\* session-state key is read before it is initialised: no run ends in the
\* read of a key that is not set.
C27_KeysInitialisedBeforeRead == stopped.key = "none"


====
